---- MODULE Spec2Model ----
(***************************************************************************)
(* A state-machine model of the D3JS model viewer: the geometry extension  *)
(* animator (ModelExtender), the texture manager (TextureManager) and the  *)
(* selection manager (SelectionManager, both variants of                   *)
(* selectionManager.ts).                                                   *)
(*                                                                         *)
(* Numbers.  Extension factors are fixed-point: the integer f stands for   *)
(* f / FDen.  Vertex coordinates are integers and a product or quotient    *)
(* is rounded down to one (as Float32Array rounds to a float).  Time is    *)
(* in milliseconds,                                                        *)
(* kept per animation as the time elapsed since its start, saturating at   *)
(* Duration (progress = min(elapsed / duration, 1) reads nothing more).    *)
(***************************************************************************)
EXTENDS Integers, Sequences, FiniteSets, TLC

VARIABLES
    \* ---- ModelExtender (src/unnamed/part_001)
    positions,            \* mesh -> its geometry's position attribute array
    originalGeometries,   \* mesh -> NoSnapshot or the stored original positions
    chains,               \* scheduled animateExtension callbacks, in registration order
    \* ---- TextureManager (src/src/utils/gravityManager.ts)
    material,             \* mesh -> its current material
    originalMaterial,     \* mesh -> userData.originalMaterial (NoMaterial: unset)
    loadedTextures,       \* path -> NoTexture or the cached texture
    loads,                \* texture loads in flight, each with its continuation
    nextLoad,             \* number of loader invocations so far (texture identities)
    loaderCalls,          \* path -> number of loader invocations for it (history)
    \* ---- SelectionManager (src/src/utils/selectionManager.ts)
    variant,              \* 1: lines 3-126, 2: lines 131-499
    dom,                  \* the element ids present in the document
    selectableObjects,
    selectedObject,
    boundingBox,          \* NoBox or the BoxHelper the manager holds
    sceneBoxes,           \* the BoxHelpers that are children of the scene
    currentExtensionFactor,
    isAnimating,
    timers,               \* pending setTimeout(resolve, duration) of extendModel
    currentTexturePath,
    modelTextures,        \* object -> NoPath or remembered texture path
    panelDisplay,         \* style.display of #selection-panel
    sliderValue,          \* value of #x-extension-slider
    highlighted,          \* texture buttons carrying the class 'selected'
    \* ---- GravityManager (src/src/utils/gravityManager.ts) and its objects
    objects,              \* the registered participants, in registration order
    originalPositions,    \* object -> NoVector or the position recorded at registration
    originalRotations,    \* object -> NoVector or the orientation recorded at registration
    isActive,
    objectVelocities,     \* object -> NoVector or its drift velocity
    objectRotations,      \* object -> NoVector or its rotation speeds
    position,             \* object -> Object3D.position
    quaternion,           \* object -> Object3D.quaternion
    updateCount,          \* GravityManager.update calls so far (bounds the run)
    \* ---- App (src/unnamed/part_002, src/src/main.ts)
    sceneChildren,        \* scene.children, in the order of scene.add
    loadedModels,
    modelLoads,           \* loadModelAtPosition calls awaiting modelLoader.loadModel
    modelResults,         \* what the settled loadModelAtPosition calls returned (history)
    nextModel,            \* number of GLTFLoader.load invocations so far
    frameLog,             \* what the latest animate() call did, in order (history)
    rafPending,           \* animate is scheduled with requestAnimationFrame
    frameCount,           \* animate() calls so far (bounds the run)
    viewport,             \* window.innerWidth, window.innerHeight
    rendererSize,         \* the size given to renderer.setSize
    \* ---- history (not program state)
    lastOp,               \* the operation that produced this state
    extApplied,           \* object -> factor of its last completed slider extension, 0 after a reset
    texApplied,           \* object -> path the user last applied to it (load completed), NoPath after a reset
    resetSince,           \* objects whose texture was reset, no texture button clicked since
    uncaught,             \* an exception has escaped from a handler
    lastAnimated          \* per mesh with a chain scheduled, the factor of the
                          \* animation started last on it

extVars == <<positions, originalGeometries, chains>>
texVars == <<material, originalMaterial, loadedTextures, loads, nextLoad,
            loaderCalls>>
selVars == <<variant, dom, selectableObjects, selectedObject, boundingBox, sceneBoxes,
             currentExtensionFactor, isAnimating, timers, currentTexturePath,
             modelTextures, panelDisplay, sliderValue, highlighted>>
gravVars == <<objects, originalPositions, originalRotations, isActive,
             objectVelocities, objectRotations, position, quaternion,
             updateCount>>
loadVars == <<sceneChildren, loadedModels, modelLoads, modelResults, nextModel>>
loopVars == <<frameLog, rafPending, frameCount, viewport, rendererSize>>
appVars == <<gravVars, loadVars, loopVars>>
histVars == <<extApplied, texApplied, resetSince, uncaught, lastAnimated>>
vars == <<extVars, texVars, selVars, appVars, histVars, lastOp>>

----------------------------------------------------------------------------
(* Bounds of the model *)

MaxChains == 2         \* animateExtension callbacks scheduled at once
MaxLoads == 1          \* texture loads in flight at once
MaxSelectable == 2     \* length of the candidate list
FramesPerAnim == 2     \* clock steps per animation duration

(* Program constants *)

Duration == 300        \* extendModel's default, and applyExtension's argument
DeadZoneDen == 100     \* the dead zone is 1 / DeadZoneDen = 0.01

FDen == 2 * DeadZoneDen          \* factor resolution: half a dead zone
StepMs == Duration \div FramesPerAnim

----------------------------------------------------------------------------
(* The scene graph: group A with mesh a1, which has a child mesh a2;       *)
(* mesh B.  A and B are the top-level objects.                             *)

Nodes == {"A", "a1", "a2", "a3", "B"}
Meshes == {"a1", "a2", "B"}
TopLevel == {"A", "B"}
\* the nodes that are THREE.Group: the loaded model and an empty group in it
Groups == {"A", "a3"}
\* scene.children, in order
SceneRoots == <<"A", "B">>
NoObject == "null"

Children == [n \in Nodes |->
    CASE n = "A" -> <<"a1", "a3">>
      [] n = "a1" -> <<"a2">>
      [] OTHER -> <<>>]

Parent == [n \in Nodes |->
    CASE n = "a1" -> "A"
      [] n = "a3" -> "A"
      [] n = "a2" -> "a1"
      [] OTHER -> NoObject]

RECURSIVE TraverseAll(_)
RECURSIVE Traverse(_)
\* Object3D.traverse: the node, then each child's subtree
Traverse(n) == <<n>> \o TraverseAll(Children[n])
TraverseAll(ns) ==
    IF ns = <<>> THEN <<>> ELSE Traverse(Head(ns)) \o TraverseAll(Tail(ns))

SeqRange(s) == {s[i] : i \in 1..Len(s)}
MeshesUnder(n) == SeqRange(Traverse(n)) \cap Meshes

\* The geometry the meshes are loaded with.
Geometry0 == [m \in Meshes |->
    CASE m = "a1" -> <<4, 1, 2>>
      [] m = "a2" -> <<-4, 0, 3, 8, 5, 0>>
      [] OTHER -> <<8, 7, 1>>]

Factors == {0, 1, FDen \div 2}
\* the slider at its two ends
LiveFactors == {0, FDen \div 2}

Abs(x) == IF x < 0 THEN -x ELSE x

----------------------------------------------------------------------------
(* ModelExtender                                                           *)

NoSnapshot == <<>>

Min(a, b) == IF a < b THEN a ELSE b

\* extendMeshGeometry, "if (!this.originalGeometries.has(mesh))"
NeedsSnapshot_Always(og, mesh) == TRUE
NeedsSnapshot(og, mesh) == og[mesh] = NoSnapshot

\* storeOriginalGeometry: a copy of the position array, keyed by the mesh
\* (and, below it, by the mesh's one geometry)
StoreOriginalGeometry(og, mesh, pos) == [og EXCEPT ![mesh] = pos]

\* the target of an extension: x * (1 + factor) for the first coordinate of
\* each vertex triple, the other two unchanged
TargetPositions_AllAxes(orig, f) ==
    [i \in 1..Len(orig) |-> (orig[i] * (FDen + f)) \div FDen]
TargetPositions(orig, f) ==
    [i \in 1..Len(orig) |->
        IF i % 3 = 1 THEN (orig[i] * (FDen + f)) \div FDen ELSE orig[i]]

\* one call of animateExtension for the callback c (its closure's mesh,
\* initialPositions, targetPositions and the time since its startTime)
Lerp(c) ==
    LET p == Min(c.elapsed, c.duration) IN
    [i \in 1..Len(c.initial) |->
        c.initial[i] + ((c.target[i] - c.initial[i]) * p) \div c.duration]

\* animateExtension, "if (progress < 1) requestAnimationFrame(animateExtension)"
ChainDone_Never(c) == FALSE
ChainDone(c) == c.elapsed >= c.duration

\* extendMeshGeometry on the extender state e = [pos, og, ch]
ExtendMeshGeometry(e, mesh, f, animate, duration) ==
    LET og1 == IF NeedsSnapshot(e.og, mesh)
               THEN StoreOriginalGeometry(e.og, mesh, e.pos[mesh])
               ELSE e.og
        target == TargetPositions(og1[mesh], f)
    IN  IF animate
        THEN [pos |-> e.pos, og |-> og1,
              ch |-> Append(e.ch, [mesh |-> mesh, initial |-> e.pos[mesh],
                                   target |-> target, elapsed |-> 0,
                                   duration |-> duration])]
        ELSE [pos |-> [e.pos EXCEPT ![mesh] = target], og |-> og1, ch |-> e.ch]

RECURSIVE ExtendEach(_, _, _, _, _)
ExtendEach(e, ns, f, animate, duration) ==
    IF ns = <<>> THEN e
    ELSE ExtendEach(IF Head(ns) \in Meshes
                    THEN ExtendMeshGeometry(e, Head(ns), f, animate, duration)
                    ELSE e,
                    Tail(ns), f, animate, duration)

\* extendModel, up to the creation of its promise
ExtendModel(e, model, f, animate, duration) ==
    ExtendEach(e, Traverse(model), f, animate, duration)

\* resetMeshGeometry: nothing for a mesh without a stored original
ResetMeshGeometry_Keep(e, mesh) == e
ResetMeshGeometry(e, mesh) ==
    IF e.og[mesh] = NoSnapshot THEN e
    ELSE [e EXCEPT !.pos[mesh] = e.og[mesh]]

RECURSIVE ResetEach(_, _)
ResetEach(e, ns) ==
    IF ns = <<>> THEN e
    ELSE ResetEach(IF Head(ns) \in Meshes THEN ResetMeshGeometry(e, Head(ns)) ELSE e,
                   Tail(ns))

ResetModel(e, model) == ResetEach(e, Traverse(model))

\* one animation frame: every scheduled animateExtension runs once, in
\* registration order; one whose progress is below 1 schedules itself again
RECURSIVE RunCallbacks(_, _)
RunCallbacks(e, cs) ==
    IF cs = <<>> THEN e
    ELSE LET c == Head(cs)
             e1 == [pos |-> [e.pos EXCEPT ![c.mesh] = Lerp(c)],
                    og |-> e.og,
                    ch |-> IF ChainDone(c) THEN e.ch ELSE Append(e.ch, c)]
         IN  RunCallbacks(e1, Tail(cs))

RunFrame(e) == RunCallbacks([e EXCEPT !.ch = <<>>], e.ch)

\* the clock advances by StepMs
Advance(s) == [i \in 1..Len(s) |->
                  [s[i] EXCEPT !.elapsed = Min(s[i].elapsed + StepMs, s[i].duration)]]

Ext == [pos |-> positions, og |-> originalGeometries, ch |-> chains]
SetExt(e) ==
    /\ positions' = e.pos
    /\ originalGeometries' = e.og
    /\ chains' = e.ch

\* the meshes of the model start an animation towards the factor f
StartedOn(la, model, f) ==
    [m \in Meshes |-> IF m \in MeshesUnder(model) THEN <<f>> ELSE la[m]]

\* a mesh whose chains have all ended has no animation to remember
StillAnimated(la, ch) ==
    [m \in Meshes |-> IF \E i \in 1..Len(ch) : ch[i].mesh = m THEN la[m] ELSE <<>>]

Op(op, obj, aux, arg, flag) ==
    [op |-> op, obj |-> obj, aux |-> aux, arg |-> arg, flag |-> flag]

----------------------------------------------------------------------------
(* TextureManager                                                          *)

NoPath == "null"
NoTexture == [path |-> NoPath, n |-> 0]
NoMaterial == [id |-> 0, map |-> NoTexture]
Paths == {"red", "green"}

\* the material each mesh is loaded with: one of its own, without a map
DefaultMaterial == [m \in Meshes |->
    [id |-> CASE m = "a1" -> 1 [] m = "a2" -> 2 [] OTHER -> 3, map |-> NoTexture]]

\* "new THREE.MeshStandardMaterial": an identity no live reference carries
FreshMaterialId(t) ==
    LET used == {t.mat[m].id : m \in Meshes} \cup {t.orig[m].id : m \in Meshes}
    IN  CHOOSE i \in 1..(2 * Cardinality(Meshes) + 1) :
            i \notin used /\ \A j \in 1..(i - 1) : j \in used

\* applyTextureToModel, "if (!object.userData.originalMaterial)"
NeedsStash_Always(orig, mesh) == TRUE
NeedsStash(orig, mesh) == orig[mesh] = NoMaterial

\* the traversal callback of applyTextureToModel on t = [mat, orig]
SwapMaterial(t, mesh, newMat) ==
    [mat |-> [t.mat EXCEPT ![mesh] = newMat],
     orig |-> IF NeedsStash(t.orig, mesh)
              THEN [t.orig EXCEPT ![mesh] = t.mat[mesh]]
              ELSE t.orig]

RECURSIVE SwapEach(_, _, _)
SwapEach(t, ns, newMat) ==
    IF ns = <<>> THEN t
    ELSE SwapEach(IF Head(ns) \in Meshes THEN SwapMaterial(t, Head(ns), newMat) ELSE t,
                  Tail(ns), newMat)

\* applyTextureToModel after its await: one new material for every mesh
ApplyLoadedTexture_RootOnly(t, model, texture) ==
    SwapEach(t, <<model>>, [id |-> FreshMaterialId(t), map |-> texture])
ApplyLoadedTexture(t, model, texture) ==
    SwapEach(t, Traverse(model), [id |-> FreshMaterialId(t), map |-> texture])

\* the traversal callback of resetModelMaterials
RestoreMaterial(t, mesh) ==
    IF t.orig[mesh] # NoMaterial
    THEN [t EXCEPT !.mat[mesh] = t.orig[mesh]]
    ELSE t

RECURSIVE RestoreEach(_, _)
RestoreEach(t, ns) ==
    IF ns = <<>> THEN t
    ELSE RestoreEach(IF Head(ns) \in Meshes THEN RestoreMaterial(t, Head(ns)) ELSE t,
                     Tail(ns))

ResetModelMaterials(t, model) == RestoreEach(t, Traverse(model))

\* loadTexture, "if (this.loadedTextures.has(texturePath))"
IsCached(path) == loadedTextures[path] # NoTexture

\* a texture object: the path it was loaded from and the loader call that made it
Texture(path, n) == [path |-> path, n |-> n]

Tex == [mat |-> material, orig |-> originalMaterial]
SetTex(t) ==
    /\ material' = t.mat
    /\ originalMaterial' = t.orig

RemoveAt(s, i) == SubSeq(s, 1, i - 1) \o SubSeq(s, i + 1, Len(s))

----------------------------------------------------------------------------
(* GravityManager (src/src/utils/gravityManager.ts, lines 5-218)           *)
(* Lengths and speeds are integers in units of 1/GUnit; an orientation is  *)
(* the triple of the angles accumulated by rotateX, rotateY and rotateZ.   *)

MaxUpdates == 3        \* update() calls in one run

GUnit == 10000
FloatSpeed == 200      \* floatSpeed = 0.02
MaxHeight == 100000    \* maxHeight = 10
Bounce(vy) == -((vy * 5) \div 10)          \* velocity.y = -velocity.y * 0.5
Damp(v) == (v * 99) \div 100               \* velocity.x *= 0.99

NoVector == <<>>
GravObjects == {"A", "B"}
\* the scene as loaded: loadModelAtPosition places a model at (0, 0.6, 0)
Position0 == [o \in Nodes |-> IF o = "A" THEN <<0, 6000, 0>> ELSE <<10000, 0, 0>>]
Quaternion0 == [o \in Nodes |-> <<0, 0, 0>>]

\* initializeObjectPhysics: the values Math.random() leads to
InitialVelocities == {<<vx, (FloatSpeed * 5) \div 10, -50>> : vx \in {-100, -50}}
InitialRotations == {<<rx, 10, 0>> : rx \in {-25, 10}}
\* update: (Math.random() - 0.5) * 0.001 for x and for z
Jitters == {<<jx, 0>> : jx \in {-5, 4}}

GravInit ==
    /\ objects = <<>>
    /\ originalPositions = [o \in Nodes |-> NoVector]
    /\ originalRotations = [o \in Nodes |-> NoVector]
    /\ isActive = FALSE
    /\ objectVelocities = [o \in Nodes |-> NoVector]
    /\ objectRotations = [o \in Nodes |-> NoVector]
    /\ position = Position0
    /\ quaternion = Quaternion0
    /\ updateCount = 0

----------------------------------------------------------------------------
(* App (src/unnamed/part_002; src/src/main.ts is the same without models)  *)

MaxModelLoads == 3     \* loadModelAtPosition calls in one run
MaxFrames == 3         \* animate() calls in one run

NoModel == [kind |-> "null", n |-> 0]
Helper(kind) == [kind |-> kind, n |-> 0]
ModelPaths == {"models/bike.glb", "models/car.glb"}
ModelPositions == {<<0, 6000, 0>>, <<20000, 0, 0>>}
Viewports == {<<800, 600>>, <<1024, 768>>}
\* the steps of one animate() call
AnimateSteps_WithUpdaters ==
    <<"requestAnimationFrame", "controls.update", "selectionManager.update",
      "gravityManager.update", "render">>
AnimateSteps == <<"requestAnimationFrame", "controls.update", "render">>
ModelScene(n) == [kind |-> "gltf.scene", n |-> n]

\* the App as its constructor leaves it: lights and grid in the scene, the
\* bike loading, the first animate() call made
AppInit ==
    /\ sceneChildren = <<Helper("ambientLight"), Helper("directionalLight"),
                         Helper("gridHelper")>>
    /\ loadedModels = <<>>
    /\ modelLoads = <<[path |-> "models/bike.glb", pos |-> <<0, 6000, 0>>, n |-> 1]>>
    /\ modelResults = <<>>
    /\ nextModel = 1
    /\ frameLog = AnimateSteps
    /\ rafPending = TRUE
    /\ frameCount = 1
    /\ viewport = <<800, 600>>
    /\ rendererSize = <<800, 600>>

----------------------------------------------------------------------------
(* Initial state *)

NoBox == [id |-> 0, object |-> NoObject]
Elements == {"selection-panel", "model-name", "x-extension-slider",
             "extension-value", "texture-selector", "ui-container"}
InitCommon ==
    /\ positions = Geometry0
    /\ originalGeometries = [m \in Meshes |-> NoSnapshot]
    /\ chains = <<>>
    /\ material = DefaultMaterial
    /\ originalMaterial = [m \in Meshes |-> NoMaterial]
    /\ loadedTextures = [p \in Paths |-> NoTexture]
    /\ loads = <<>>
    /\ nextLoad = 0
    /\ loaderCalls = [p \in Paths |-> 0]
    /\ GravInit
    /\ AppInit
    /\ selectableObjects = <<>>
    /\ selectedObject = NoObject
    /\ boundingBox = NoBox
    /\ sceneBoxes = <<>>
    /\ currentExtensionFactor = 0
    /\ isAnimating = FALSE
    /\ timers = <<>>
    /\ currentTexturePath = NoPath
    /\ modelTextures = [o \in Nodes \cup {NoObject} |-> NoPath]
    /\ panelDisplay = "none"
    /\ sliderValue = 0
    /\ highlighted = {}
    /\ lastOp = Op("init", NoObject, NoObject, 0, FALSE)
    /\ extApplied = [o \in Nodes |-> 0]
    /\ texApplied = [o \in Nodes |-> NoPath]
    /\ resetSince = {}
    /\ uncaught = FALSE
    /\ lastAnimated = [m \in Meshes |-> <<>>]

----------------------------------------------------------------------------
(* The ModelExtender on its own: any caller, any model, any factor *)

ExtInit ==
    /\ InitCommon
    /\ variant = 0
    /\ dom = {}

ExtExtendModel(model, f, animate, duration) ==
    /\ animate => Len(chains) + Cardinality(MeshesUnder(model)) <= MaxChains
    /\ SetExt(ExtendModel(Ext, model, f, animate, duration))
    /\ lastOp' = Op("extendModel", model,
                    IF animate THEN "animate" ELSE "immediate", f,
                    \E m \in MeshesUnder(model) :
                        /\ originalGeometries[m] # NoSnapshot
                        /\ positions[m] # originalGeometries[m])
    /\ lastAnimated' = IF animate THEN StartedOn(lastAnimated, model, f)
                       ELSE lastAnimated
    /\ UNCHANGED <<texVars, selVars, appVars, extApplied, texApplied, resetSince,
                   uncaught>>

ExtResetModel(model) ==
    /\ SetExt(ResetModel(Ext, model))
    /\ lastOp' = Op("resetModel", model, NoObject, 0,
                    \E m \in MeshesUnder(model) : positions[m] # Geometry0[m])
    /\ UNCHANGED <<texVars, selVars, appVars, histVars>>

ExtFrame ==
    /\ chains # <<>>
    /\ SetExt(RunFrame(Ext))
    /\ lastOp' = Op("frame", NoObject, NoObject, 0, FALSE)
    /\ lastAnimated' = StillAnimated(lastAnimated, RunFrame(Ext).ch)
    /\ UNCHANGED <<texVars, selVars, appVars, extApplied, texApplied, resetSince,
                   uncaught>>

ExtTick ==
    /\ \E i \in 1..Len(chains) : chains[i].elapsed < chains[i].duration
    /\ chains' = Advance(chains)
    /\ lastOp' = Op("tick", NoObject, NoObject, 0, FALSE)
    /\ UNCHANGED <<positions, originalGeometries, texVars, selVars, appVars, histVars>>

\* the models the components are called with on their own: the group and a
\* mesh under it
ExtModels == {"A", "a2"}

ExtNext ==
    \/ \E model \in ExtModels, f \in Factors, animate \in BOOLEAN :
          ExtExtendModel(model, f, animate, Duration)
    \/ \E model \in ExtModels : ExtResetModel(model)
    \/ ExtFrame
    \/ ExtTick

SpecExt == ExtInit /\ [][ExtNext]_vars

(* C1: immediately after resetModel(model) every tracked mesh under the    *)
(* model has exactly the vertex positions it had before its first          *)
(* extendModel call, whatever extendModel calls (any factors, animated or  *)
(* not) came before.                                                       *)
C1_ResetRestoresOriginal ==
    lastOp.op = "resetModel" =>
        \A m \in MeshesUnder(lastOp.obj) :
            originalGeometries[m] # NoSnapshot => positions[m] = Geometry0[m]

\* a reset of the whole model A that found a deformed mesh, no animation left
C1_Witness ==
    /\ lastOp.op = "resetModel" /\ lastOp.obj = "A" /\ lastOp.flag
    /\ chains = <<>>
    /\ \A m \in MeshesUnder("A") : originalGeometries[m] # NoSnapshot

(* C2: once the original-geometry snapshot of a mesh is stored, no step    *)
(* (extendModel, resetModel, animation frame) changes it.                  *)
C2_SnapshotNeverOverwritten ==
    [][\A m \in Meshes :
          originalGeometries[m] # NoSnapshot =>
              originalGeometries'[m] = originalGeometries[m]]_vars

\* extendModel has run on a mesh that was tracked and deformed at the call
C2_Witness ==
    /\ lastOp.op = "extendModel" /\ lastOp.flag
    /\ \E m \in MeshesUnder(lastOp.obj) :
          originalGeometries[m] = Geometry0[m] /\ positions[m] # Geometry0[m]

(* C13: extendModel(model, f, animate = false) leaves every vertex triple  *)
(* of every mesh under the model at (x0 * (1 + f), y0, z0), (x0, y0, z0)    *)
(* being the vertex as loaded, whatever the buffer held at the call         *)
(* (original, deformed by another factor, or in the middle of an animation).*)
C13_TargetFromOriginal ==
    (lastOp.op = "extendModel" /\ lastOp.aux = "immediate") =>
        \A m \in MeshesUnder(lastOp.obj) :
            \A i \in 1..Len(Geometry0[m]) :
                positions[m][i] = IF i % 3 = 1
                                  THEN (Geometry0[m][i] * (FDen + lastOp.arg)) \div FDen
                                  ELSE Geometry0[m][i]

\* an immediate extension by 1/2 of a model that was deformed by another
\* factor and has an animation in flight on one of its meshes
C13_Witness ==
    /\ lastOp.op = "extendModel" /\ lastOp.aux = "immediate" /\ lastOp.flag
    /\ lastOp.obj = "A" /\ lastOp.arg = FDen \div 2
    /\ \E i \in 1..Len(chains) :
          /\ chains[i].mesh \in MeshesUnder("A")
          /\ chains[i].elapsed > 0 /\ chains[i].elapsed < chains[i].duration
          /\ chains[i].target # positions[chains[i].mesh]

\* the extender called with single meshes, where animation frames keep
\* coming and the clock keeps advancing
AnimModels == {"B"}

AnimNext ==
    \/ \E model \in AnimModels, f \in Factors, animate \in BOOLEAN :
          ExtExtendModel(model, f, animate, Duration)
    \/ \E model \in AnimModels : ExtResetModel(model)
    \/ ExtFrame
    \/ ExtTick

SpecExtLive ==
    ExtInit /\ [][AnimNext]_vars /\ WF_vars(ExtFrame) /\ WF_vars(ExtTick)

Animating(m) == \E i \in 1..Len(chains) : chains[i].mesh = m
Touched(m) ==
    lastOp.op \in {"extendModel", "resetModel"} /\ m \in MeshesUnder(lastOp.obj)
AloneOnMesh(i) == \A j \in 1..Len(chains) : chains[j].mesh = chains[i].mesh => j = i

(* C14: an animated extendModel call terminates.  A callback chain that is *)
(* the only one on its mesh stays scheduled while its progress is below 1; *)
(* the first frame that finds its progress at 1 writes the target          *)
(* positions exactly and does not schedule it again; and unless another    *)
(* extend or reset touches the mesh, the mesh eventually has no chain.     *)
C14_AnimationTerminates ==
    /\ [][lastOp'.op = "frame" =>
            \A i \in 1..Len(chains) :
                AloneOnMesh(i) =>
                    IF ChainDone(chains[i])
                    THEN /\ positions'[chains[i].mesh] = chains[i].target
                         /\ \A j \in 1..Len(chains') :
                               chains'[j].mesh # chains[i].mesh
                    ELSE \E j \in 1..Len(chains') : chains'[j] = chains[i]]_vars
    /\ \A m \in Meshes : Animating(m) ~> (~Animating(m) \/ Touched(m))

\* the frame that ended the only chain on a mesh left the mesh at a target
\* that differs from the geometry as loaded
C14_Witness ==
    /\ lastOp.op = "frame"
    /\ chains = <<>>
    /\ \E m \in Meshes : positions[m] = TargetPositions(Geometry0[m], FDen \div 2)

----------------------------------------------------------------------------
(* The TextureManager on its own: any caller, any model, any path *)

MaxLoaderCalls == 3    \* TextureLoader.load calls in one run
MaxOverlap == 2        \* applyTextureToModel calls awaiting their texture at once

TexInit ==
    /\ InitCommon
    /\ variant = 0
    /\ dom = {}

HasTexture(model) == \E m \in MeshesUnder(model) : material[m].map # NoTexture

\* applyTextureToModel(model, path): with the texture cached its await
\* resumes before any other event; otherwise the loader is called
TexApply(model, path) ==
    /\ IF IsCached(path)
       THEN /\ SetTex(ApplyLoadedTexture(Tex, model, loadedTextures[path]))
            /\ UNCHANGED <<loads, nextLoad, loaderCalls>>
       ELSE /\ Len(loads) < MaxOverlap /\ nextLoad < MaxLoaderCalls
            /\ loads' = Append(loads, [path |-> path, n |-> nextLoad + 1,
                                       model |-> model, cont |-> "none"])
            /\ nextLoad' = nextLoad + 1
            /\ loaderCalls' = [loaderCalls EXCEPT ![path] = @ + 1]
            /\ UNCHANGED <<material, originalMaterial>>
    /\ lastOp' = Op("applyTextureToModel", model, path, 0, IsCached(path))
    /\ UNCHANGED <<loadedTextures, extVars, selVars, appVars, histVars>>

\* the loader's onLoad for the i-th load in flight
TexLoadDone(i) ==
    LET l == loads[i]
        texture == Texture(l.path, l.n)
    IN  /\ loadedTextures' = [loadedTextures EXCEPT ![l.path] = texture]
        /\ SetTex(ApplyLoadedTexture(Tex, l.model, texture))
        /\ loads' = RemoveAt(loads, i)
        /\ lastOp' = Op("textureLoaded", l.model, l.path, 0, HasTexture(l.model))
        /\ UNCHANGED <<nextLoad, loaderCalls, extVars, selVars, appVars, histVars>>

\* the loader's onError: loadTexture rejects, applyTextureToModel catches
TexLoadFail(i) ==
    /\ loads' = RemoveAt(loads, i)
    /\ lastOp' = Op("textureFailed", loads[i].model, loads[i].path, 0, FALSE)
    /\ UNCHANGED <<material, originalMaterial, loadedTextures, nextLoad, loaderCalls,
                   extVars, selVars, appVars, histVars>>

TexReset(model) ==
    /\ SetTex(ResetModelMaterials(Tex, model))
    /\ lastOp' = Op("resetModelMaterials", model, NoObject, 0, HasTexture(model))
    /\ UNCHANGED <<loadedTextures, loads, nextLoad, loaderCalls, extVars, selVars, appVars, histVars>>

TexModels == {"A", "a2"}

TexNext ==
    \/ \E model \in TexModels, path \in Paths : TexApply(model, path)
    \/ \E i \in 1..Len(loads) : TexLoadDone(i)
    \/ \E i \in 1..Len(loads) : TexLoadFail(i)
    \/ \E model \in TexModels : TexReset(model)

SpecTex == TexInit /\ [][TexNext]_vars

(* C10: after resetModelMaterials(model) every mesh under the model has,   *)
(* reference-equal, the material it had before its first texture swap,     *)
(* whatever applyTextureToModel calls came before; and a stashed original  *)
(* material, once captured, is never overwritten.                          *)
C10_ResetRestoresMaterial ==
    /\ [](lastOp.op = "resetModelMaterials" =>
            \A m \in MeshesUnder(lastOp.obj) : material[m] = DefaultMaterial[m])
    /\ [][\A m \in Meshes :
            originalMaterial[m] # NoMaterial =>
                originalMaterial'[m] = originalMaterial[m]]_vars

\* a reset of model A whose meshes carried a texture material, after both
\* paths were loaded (so more than one swap happened on some mesh)
C10_Witness ==
    /\ lastOp.op = "resetModelMaterials" /\ lastOp.obj = "A" /\ lastOp.flag
    /\ \A p \in Paths : IsCached(p)
    /\ \A m \in MeshesUnder("A") : originalMaterial[m] = DefaultMaterial[m]

(* C11 (as claimed): the loader is invoked at most once per texture path,  *)
(* whatever the interleaving of applyTextureToModel calls, and every        *)
(* material textured with a path carries the one cached texture of it.     *)
C11_LoadOnce ==
    /\ \A p \in Paths : loaderCalls[p] <= 1
    /\ \A m \in Meshes :
          material[m].map # NoTexture =>
              material[m].map = loadedTextures[material[m].map.path]

\* all meshes under the model reference one material instance
OneMaterial(model) ==
    \A m1, m2 \in MeshesUnder(model) : material[m1] = material[m2]

\* an applyTextureToModel call on lastOp.obj has just completed
ApplyCompleted ==
    \/ lastOp.op \in {"textureLoaded", "textureFailed"}
    \/ lastOp.op = "applyTextureToModel" /\ lastOp.flag

\* applyTextureToModel calls on the model that still await their texture
PendingOn(model) == {i \in 1..Len(loads) : loads[i].model = model}

(* C18 (as claimed): once the applyTextureToModel calls made on a model    *)
(* have all completed, overlapping ones included, all meshes under the     *)
(* model reference one and the same material instance.                     *)
C18_OneMaterial ==
    (ApplyCompleted /\ PendingOn(lastOp.obj) = {}) => OneMaterial(lastOp.obj)

(* C18 (amended): when an applyTextureToModel call on a model completes    *)
(* with its texture loaded, whatever calls overlapped it, all meshes under *)
(* the model reference one and the same material instance, a new one that  *)
(* carries the texture; a call whose load fails leaves every material as   *)
(* it was.                                                                 *)
C18_OneMaterialAfterLoad ==
    /\ [](lastOp.op = "textureLoaded"
           \/ (lastOp.op = "applyTextureToModel" /\ lastOp.flag)
           => /\ OneMaterial(lastOp.obj)
              /\ \A m \in MeshesUnder(lastOp.obj) :
                    /\ material[m].map.path = lastOp.aux
                    /\ material[m] # DefaultMaterial[m])
    /\ [][lastOp'.op = "textureFailed" => material' = material]_vars

\* two calls for red on A overlapped (the loader ran twice for the path)
\* and both have completed with the texture loaded
C18_Witness ==
    /\ lastOp.op = "textureLoaded" /\ lastOp.obj = "A" /\ lastOp.flag
    /\ loaderCalls["red"] = 2
    /\ PendingOn("A") = {}
    /\ material["a1"].map.n = 2

----------------------------------------------------------------------------
(* SelectionManager                                                        *)

Candidates == SeqRange(selectableObjects)

\* onRightClick, "while (selectedObject.parent && !includes(selectedObject))"
NearestCandidate_Self(n) == n
RECURSIVE NearestCandidate(_)
NearestCandidate(n) ==
    IF Parent[n] # NoObject /\ n \notin Candidates
    THEN NearestCandidate(Parent[n])
    ELSE n

\* what raycaster.intersectObjects(selectableObjects, true)[0].object can be:
\* a mesh that is a candidate or lies under one
Hittable == UNION {MeshesUnder(c) : c \in Candidates}

\* "new THREE.BoxHelper(object)": an identity no box of the scene carries
NewBox(boxes, object) ==
    [id |-> CHOOSE i \in 1..(Len(boxes) + 1) :
                /\ \A k \in 1..Len(boxes) : boxes[k].id # i
                /\ \A j \in 1..(i - 1) : \E k \in 1..Len(boxes) : boxes[k].id = j,
     object |-> object]

\* "if (this.boundingBox) { this.scene.remove(this.boundingBox) }"
RemoveBox_Leave(boxes, box) == boxes
RemoveBox(boxes, box) == SelectSeq(boxes, LAMBDA b : b.id # box.id)

PanelAndName_Unguarded == TRUE
PanelAndName == {"selection-panel", "model-name"} \subseteq dom
SliderAndValue == {"x-extension-slider", "extension-value"} \subseteq dom
HasButtons == "texture-selector" \in dom

\* reading a property of the element a missing id gave (null) is a TypeError
Throws(ids) == ~(ids \subseteq dom)
\* updateSelectionUI: the elements its branches dereference
UpdateUIThrows ==
    \/ PanelAndName /\ Throws({"selection-panel", "model-name"})
    \/ PanelAndName /\ SliderAndValue /\ Throws({"x-extension-slider", "extension-value"})
\* clearSelection: "if (selectionPanel)"
ClearUIThrows == "selection-panel" \in dom /\ Throws({"selection-panel"})

\* clearSelection, "selectionPanel.style.display = 'none'"
HidePanel_Not(display) == display
HidePanel(display) == IF "selection-panel" \in dom THEN "none" ELSE display

\* "this.modelTextures.set(this.selectedObject, this.currentTexturePath)"
\* under "if (this.currentTexturePath)", in selectObject and clearSelection
RememberTexture(mt, object, path) ==
    IF path # NoPath THEN [mt EXCEPT ![object] = path] ELSE mt

\* applyExtension, "Math.abs(factor - this.currentExtensionFactor) < 0.01"
InDeadZone_Never(factor, current) == FALSE
InDeadZone(factor, current) == Abs(factor - current) * DeadZoneDen < FDen

\* applyExtension, "if (!this.selectedObject || this.isAnimating) return"
ExtensionGated_NoFlag(selected, animating) == selected = NoObject
ExtensionGated(selected, animating) == selected = NoObject \/ animating

\* applyExtension, "finally { this.isAnimating = false }"
FlagAfterExtension_Keep(animating) == animating
FlagAfterExtension(animating) == FALSE

\* selectObject, "this.currentExtensionFactor = 0"
FactorOnSelect_Keep(object) == currentExtensionFactor
FactorOnSelect(object) == 0

\* --- first variant (lines 3-126)

ClearSelection1 ==
    /\ sceneBoxes' = IF boundingBox # NoBox THEN RemoveBox(sceneBoxes, boundingBox)
                     ELSE sceneBoxes
    /\ boundingBox' = NoBox
    /\ selectedObject' = NoObject
    /\ panelDisplay' = HidePanel(panelDisplay)
    /\ UNCHANGED <<variant, appVars, dom, selectableObjects, currentExtensionFactor, isAnimating,
                   timers, currentTexturePath, modelTextures, sliderValue, highlighted,
                   extVars, texVars, extApplied, texApplied,
                       resetSince>>
    /\ uncaught' = (uncaught \/ ClearUIThrows)
    /\ UNCHANGED lastAnimated


SelectObject1(object) ==
    LET boxes1 == IF boundingBox # NoBox THEN RemoveBox(sceneBoxes, boundingBox)
                  ELSE sceneBoxes
        box == NewBox(boxes1, object)
    IN  /\ selectedObject' = object
        /\ boundingBox' = box
        /\ sceneBoxes' = Append(boxes1, box)
        \* clearSelection hides the panel, updateSelectionUI shows it again
        /\ panelDisplay' = IF PanelAndName THEN "block" ELSE HidePanel(panelDisplay)
        /\ UNCHANGED <<variant, appVars, dom, selectableObjects, currentExtensionFactor,
                       isAnimating, timers, currentTexturePath, modelTextures,
                       sliderValue, highlighted, extVars, texVars, extApplied, texApplied,
                       resetSince>>
        /\ uncaught' = (uncaught \/ ClearUIThrows \/ UpdateUIThrows)
        /\ UNCHANGED lastAnimated


\* --- second variant (lines 131-499)

\* the fire-and-forget applyTextureToModel(object, path) of updateSelectionUI
ReapplyTexture(object, path) ==
    IF IsCached(path)
    THEN /\ SetTex(ApplyLoadedTexture(Tex, object, loadedTextures[path]))
         /\ UNCHANGED <<loadedTextures, loads, nextLoad, loaderCalls>>
    ELSE /\ Len(loads) < MaxLoads /\ nextLoad < MaxLoaderCalls
         /\ loads' = Append(loads, [path |-> path, n |-> nextLoad + 1,
                                    model |-> object, cont |-> "none"])
         /\ nextLoad' = nextLoad + 1
         /\ loaderCalls' = [loaderCalls EXCEPT ![path] = @ + 1]
         /\ UNCHANGED <<material, originalMaterial, loadedTextures>>

SelectObject2(object) ==
    LET prev == selectedObject
        e1 == IF prev # NoObject THEN ResetModel(Ext, prev) ELSE Ext
        mt1 == IF prev # NoObject
               THEN RememberTexture(modelTextures, prev, currentTexturePath)
               ELSE modelTextures
        boxes1 == IF boundingBox # NoBox THEN RemoveBox(sceneBoxes, boundingBox)
                  ELSE sceneBoxes
        box == NewBox(boxes1, object)
        path == mt1[object]
    IN  /\ SetExt(e1)
        /\ extApplied' = IF prev # NoObject THEN [extApplied EXCEPT ![prev] = 0]
                         ELSE extApplied
        /\ modelTextures' = mt1
        /\ selectedObject' = object
        /\ boundingBox' = box
        /\ sceneBoxes' = Append(boxes1, box)
        /\ currentExtensionFactor' = FactorOnSelect(object)
        /\ currentTexturePath' = path
        \* updateSelectionUI
        /\ panelDisplay' = IF PanelAndName THEN "block" ELSE panelDisplay
        /\ sliderValue' = IF PanelAndName /\ SliderAndValue THEN 0 ELSE sliderValue
        /\ highlighted' = IF ~PanelAndName THEN highlighted
                          ELSE IF path # NoPath /\ HasButtons THEN {path} ELSE {}
        /\ IF PanelAndName /\ path # NoPath
           THEN ReapplyTexture(object, path)
           ELSE UNCHANGED texVars
        /\ UNCHANGED <<variant, appVars, dom, selectableObjects, isAnimating, timers, texApplied, resetSince>>
        /\ uncaught' = (uncaught \/ UpdateUIThrows)
        /\ UNCHANGED lastAnimated


ClearSelection2 ==
    LET prev == selectedObject
        e1 == IF prev # NoObject THEN ResetModel(Ext, prev) ELSE Ext
    IN  /\ sceneBoxes' = IF boundingBox # NoBox THEN RemoveBox(sceneBoxes, boundingBox)
                         ELSE sceneBoxes
        /\ boundingBox' = NoBox
        /\ SetExt(e1)
        /\ extApplied' = IF prev # NoObject THEN [extApplied EXCEPT ![prev] = 0]
                         ELSE extApplied
        /\ modelTextures' = IF prev # NoObject
                            THEN RememberTexture(modelTextures, prev, currentTexturePath)
                            ELSE modelTextures
        /\ selectedObject' = NoObject
        /\ currentTexturePath' = NoPath
        /\ panelDisplay' = HidePanel(panelDisplay)
        /\ UNCHANGED <<variant, appVars, dom, selectableObjects, currentExtensionFactor,
                       isAnimating, timers, sliderValue, highlighted, texVars, texApplied, resetSince>>
        /\ uncaught' = (uncaught \/ ClearUIThrows)
        /\ UNCHANGED lastAnimated


\* --- the handlers

AddSelectableObject(object) ==
    /\ Len(selectableObjects) < MaxSelectable
    /\ selectableObjects' = Append(selectableObjects, object)
    /\ lastOp' = Op("addSelectableObject", object, NoObject, 0, FALSE)
    /\ UNCHANGED <<variant, appVars, dom, selectedObject, boundingBox, sceneBoxes,
                   currentExtensionFactor, isAnimating, timers, currentTexturePath,
                   modelTextures, panelDisplay, sliderValue, highlighted,
                   extVars, texVars, histVars>>

\* onRightClick with a ray whose nearest hit is the mesh `hit`
OnRightClickHit(hit) ==
    LET target == NearestCandidate(hit) IN
    /\ hit \in Hittable
    /\ IF target \in Candidates
       THEN IF variant = 1 THEN SelectObject1(target) ELSE SelectObject2(target)
       ELSE UNCHANGED <<extVars, texVars, selVars, appVars, histVars>>
    \* arg: the factor that was applied to the target when the click before,
    \* on empty space, deselected it
    /\ lastOp' = Op("select", target, hit,
                    IF lastOp.op = "clear" /\ lastOp.obj = target THEN lastOp.arg ELSE 0,
                    selectedObject # NoObject)

\* onRightClick with a ray that hits nothing
OnRightClickMiss ==
    /\ IF variant = 1 THEN ClearSelection1 ELSE ClearSelection2
    \* arg: the factor applied to the object that is deselected
    /\ lastOp' = Op("clear", selectedObject, NoObject,
                    IF selectedObject # NoObject THEN extApplied[selectedObject] ELSE 0,
                    selectedObject # NoObject)

\* the slider's oninput with the value `factor`: applyExtension(factor)
SliderInput(factor) ==
    /\ variant = 2
    /\ SliderAndValue
    /\ sliderValue' = factor
    /\ IF ExtensionGated(selectedObject, isAnimating)
          \/ InDeadZone(factor, currentExtensionFactor)
       THEN /\ UNCHANGED <<extVars, isAnimating, timers, lastAnimated>>
            /\ lastOp' = Op("sliderInput", selectedObject, NoObject, factor, FALSE)
       ELSE /\ Len(chains) + Cardinality(MeshesUnder(selectedObject)) <= MaxChains
            /\ isAnimating' = TRUE
            /\ lastAnimated' = StartedOn(lastAnimated, selectedObject, factor)
            /\ SetExt(ExtendModel(Ext, selectedObject, factor, TRUE, Duration))
            /\ timers' = Append(timers, [elapsed |-> 0, factor |-> factor,
                                         duration |-> Duration,
                                         model |-> selectedObject])
            /\ lastOp' = Op("sliderInput", selectedObject, NoObject, factor, TRUE)
    /\ UNCHANGED <<variant, appVars, dom, selectableObjects, selectedObject, boundingBox,
                   sceneBoxes, currentExtensionFactor, currentTexturePath,
                   modelTextures, panelDisplay, highlighted, texVars,
                   extApplied, texApplied, resetSince, uncaught>>

\* extendModel's setTimeout fires: its promise resolves and applyExtension
\* resumes after its await
TimerFire ==
    /\ timers # <<>>
    /\ Head(timers).elapsed >= Head(timers).duration
    /\ currentExtensionFactor' = Head(timers).factor
    /\ isAnimating' = FlagAfterExtension(isAnimating)
    /\ timers' = Tail(timers)
    /\ extApplied' = [extApplied EXCEPT ![Head(timers).model] = Head(timers).factor]
    /\ lastOp' = Op("extensionDone", Head(timers).model, selectedObject,
                    Head(timers).factor, FALSE)
    /\ UNCHANGED <<variant, appVars, dom, selectableObjects, selectedObject, boundingBox,
                   sceneBoxes, currentTexturePath, modelTextures, panelDisplay,
                   sliderValue, highlighted, extVars, texVars, texApplied, resetSince, uncaught,
                   lastAnimated>>

\* an animation frame: the scheduled animateExtension callbacks run
Frame ==
    /\ chains # <<>>
    /\ SetExt(RunFrame(Ext))
    /\ lastOp' = Op("frame", NoObject, NoObject, 0, FALSE)
    /\ lastAnimated' = StillAnimated(lastAnimated, RunFrame(Ext).ch)
    /\ UNCHANGED <<texVars, selVars, appVars, extApplied, texApplied, resetSince,
                   uncaught>>

\* the clock advances by StepMs
Tick ==
    /\ \/ \E i \in 1..Len(chains) : chains[i].elapsed < chains[i].duration
       \/ \E i \in 1..Len(timers) : timers[i].elapsed < timers[i].duration
    /\ chains' = Advance(chains)
    /\ timers' = Advance(timers)
    /\ lastOp' = Op("tick", NoObject, NoObject, 0, FALSE)
    /\ UNCHANGED <<positions, originalGeometries, texVars, histVars,
                   variant, appVars, dom, selectableObjects, selectedObject, boundingBox,
                   sceneBoxes, currentExtensionFactor, isAnimating, currentTexturePath,
                   modelTextures, panelDisplay, sliderValue, highlighted>>

----------------------------------------------------------------------------
(* The viewer with either variant of the SelectionManager: selection and   *)
(* the extension slider                                                    *)

Init ==
    /\ InitCommon
    /\ variant \in {1, 2}
    /\ dom = Elements

Next ==
    \/ \E object \in TopLevel : AddSelectableObject(object)
    \/ \E hit \in Meshes : OnRightClickHit(hit)
    \/ OnRightClickMiss
    \/ \E factor \in Factors : SliderInput(factor)
    \/ TimerFire
    \/ Frame
    \/ Tick

Spec == Init /\ [][Next]_vars

(* C3: at most one object is selected; the scene holds a bounding-box      *)
(* indicator exactly when an object is selected, never more than one, and  *)
(* it is the manager's box and wraps the selected object (both variants).  *)
C3_OneSelectionOneBox ==
    /\ selectedObject \in Nodes \cup {NoObject}
    /\ Len(sceneBoxes) <= 1
    /\ (sceneBoxes # <<>>) <=> (selectedObject # NoObject)
    /\ selectedObject = NoObject => boundingBox = NoBox
    /\ selectedObject # NoObject =>
          sceneBoxes = <<boundingBox>> /\ boundingBox.object = selectedObject

\* the first variant has switched the selection from one object to B
C3_Witness ==
    /\ variant = 1
    /\ lastOp.op = "select" /\ lastOp.flag
    /\ selectedObject = "B" /\ Len(sceneBoxes) = 1

(* C4: the selected object is none or a member of the candidate list; a    *)
(* right-click whose nearest hit is a mesh selects the nearest ancestor    *)
(* (or the mesh itself) that is in the candidate list, never a sub-mesh    *)
(* that is not a candidate.                                                *)
C4_SelectsCandidateAncestor ==
    /\ selectedObject \in Candidates \cup {NoObject}
    /\ lastOp.op = "select" =>
          /\ selectedObject \in Candidates
          /\ lastOp.aux \in MeshesUnder(selectedObject)
          /\ \A c \in Candidates :
                lastOp.aux \in MeshesUnder(c) => selectedObject \in SeqRange(Traverse(c))

\* the hit was a2, two levels under the candidate A
C4_Witness ==
    /\ lastOp.op = "select" /\ lastOp.aux = "a2"
    /\ selectedObject = "A" /\ "a2" \notin Candidates

(* C5: a right-click that hits nothing leaves the manager Unselected: no   *)
(* selected object, no bounding-box indicator in the scene, the selection  *)
(* panel hidden, from whatever state it is made.                           *)
C5_MissLeavesUnselected ==
    lastOp.op = "clear" =>
        /\ selectedObject = NoObject
        /\ boundingBox = NoBox /\ sceneBoxes = <<>>
        /\ panelDisplay = "none"

\* the click deselected an object while its extension animation was running
C5_Witness ==
    /\ lastOp.op = "clear" /\ lastOp.flag
    /\ isAnimating /\ chains # <<>>
    /\ selectedObject = NoObject

(* C6 (as claimed): a slider input whose factor is within 0.01 of the last *)
(* extension factor applied to the selected object (0 when none was, or    *)
(* since its geometry was reset) starts no animation and changes no vertex.*)
C6_DeadZoneOfSelectedObject ==
    [][(/\ lastOp'.op = "sliderInput"
        /\ selectedObject # NoObject
        /\ InDeadZone(lastOp'.arg, extApplied[selectedObject]))
       => (chains' = chains /\ positions' = positions /\ timers' = timers)]_vars

(* C7: while a slider-started extension is in flight (its completion timer *)
(* is pending) every slider input is dropped: no animation starts, no      *)
(* vertex and no snapshot changes, the current factor stays; and at most   *)
(* one slider-started extension is in flight at any time.                  *)
C7_InFlightInputsDropped ==
    /\ [](Len(timers) <= 1 /\ (isAnimating <=> timers # <<>>))
    /\ [][(lastOp'.op = "sliderInput" /\ timers # <<>>)
          => UNCHANGED <<positions, originalGeometries, chains, timers,
                         currentExtensionFactor, isAnimating>>]_vars

\* an input outside the dead zone was dropped while an extension was in flight
C7_Witness ==
    /\ lastOp.op = "sliderInput" /\ ~lastOp.flag
    /\ selectedObject # NoObject
    /\ timers # <<>> /\ isAnimating
    /\ ~InDeadZone(lastOp.arg, currentExtensionFactor)
    /\ lastOp.arg # Head(timers).factor

(* C8 (as claimed): after factor f was applied to A, A was deselected by a *)
(* right-click on empty space and selected again, the current extension    *)
(* factor and the slider position are f and A's geometry is stretched by f.*)
C8_ExtensionRestored ==
    (lastOp.op = "select" /\ lastOp.arg # 0) =>
        /\ currentExtensionFactor = lastOp.arg
        /\ sliderValue = lastOp.arg
        /\ \A m \in MeshesUnder(selectedObject) :
              positions[m] = TargetPositions(Geometry0[m], lastOp.arg)

(* C8 (amended): the extension is not restored.  The deselection resets    *)
(* A's geometry to its original snapshot; the reselection sets the current *)
(* extension factor and the slider position to 0, starts no animation and  *)
(* writes no vertex.                                                       *)
C8_ExtensionResetNotRestored ==
    /\ []((lastOp.op = "clear" /\ lastOp.flag) =>
             \A m \in MeshesUnder(lastOp.obj) : positions[m] = Geometry0[m])
    /\ []((lastOp.op = "select" /\ lastOp.arg # 0) =>
             currentExtensionFactor = 0 /\ sliderValue = 0)
    /\ [][(lastOp'.op = "select" /\ lastOp'.arg # 0) =>
             UNCHANGED <<positions, chains, timers>>]_vars

\* A is selected again after the click that deselected it with factor 1/2 applied
C8_Witness ==
    /\ lastOp.op = "select" /\ lastOp.arg = FDen \div 2
    /\ selectedObject = "A"
    /\ currentExtensionFactor = 0

----------------------------------------------------------------------------
(* The viewer with the second variant of the SelectionManager: selection   *)
(* and the texture buttons                                                 *)

\* applyTexture after its await: "this.currentTexturePath = texturePath;
\* this.modelTextures.set(this.selectedObject, texturePath)"
AfterApplyTexture(path) ==
    /\ currentTexturePath' = path
    /\ modelTextures' = [modelTextures EXCEPT ![selectedObject] = path]

\* a texture button's onclick: applyTexture(path), then the button styles
TextureClick(path) ==
    /\ variant = 2
    /\ HasButtons
    /\ highlighted' = {path}
    /\ resetSince' = {}
    /\ UNCHANGED <<uncaught, lastAnimated>>
    /\ IF selectedObject = NoObject \/ path = currentTexturePath
       THEN /\ UNCHANGED <<texVars, currentTexturePath, modelTextures, texApplied>>
            /\ lastOp' = Op("textureClick", selectedObject, path, 0, FALSE)
       ELSE IF IsCached(path)
       THEN /\ SetTex(ApplyLoadedTexture(Tex, selectedObject, loadedTextures[path]))
            /\ AfterApplyTexture(path)
            /\ texApplied' = [texApplied EXCEPT ![selectedObject] = path]
            /\ lastOp' = Op("textureClick", selectedObject, path, 0, TRUE)
            /\ UNCHANGED <<loadedTextures, loads, nextLoad, loaderCalls>>
       ELSE /\ Len(loads) < MaxLoads /\ nextLoad < MaxLoaderCalls
            /\ loads' = Append(loads, [path |-> path, n |-> nextLoad + 1,
                                       model |-> selectedObject,
                                       cont |-> "applyTexture"])
            /\ nextLoad' = nextLoad + 1
            /\ loaderCalls' = [loaderCalls EXCEPT ![path] = @ + 1]
            /\ lastOp' = Op("textureClick", selectedObject, path, 0, TRUE)
            /\ UNCHANGED <<material, originalMaterial, loadedTextures,
                           currentTexturePath, modelTextures, texApplied>>
    /\ UNCHANGED <<variant, appVars, dom, selectableObjects, selectedObject, boundingBox,
                   sceneBoxes, currentExtensionFactor, isAnimating, timers,
                   panelDisplay, sliderValue, extVars, extApplied>>

\* the loader's onLoad for the i-th load in flight: loadTexture caches and
\* resolves, applyTextureToModel swaps the materials, applyTexture resumes
LoadDone(i) ==
    LET l == loads[i]
        texture == Texture(l.path, l.n)
    IN  /\ loadedTextures' = [loadedTextures EXCEPT ![l.path] = texture]
        /\ SetTex(ApplyLoadedTexture(Tex, l.model, texture))
        /\ loads' = RemoveAt(loads, i)
        /\ IF l.cont = "applyTexture"
           THEN /\ AfterApplyTexture(l.path)
                /\ texApplied' = IF l.model = selectedObject
                                 THEN [texApplied EXCEPT ![l.model] = l.path]
                                 ELSE texApplied
           ELSE UNCHANGED <<currentTexturePath, modelTextures, texApplied>>
        /\ UNCHANGED <<resetSince, uncaught, lastAnimated>>
        /\ lastOp' = Op("textureLoaded", l.model, l.path, 0, l.model = selectedObject)
        /\ UNCHANGED <<nextLoad, loaderCalls, variant, appVars, dom, selectableObjects, selectedObject,
                       boundingBox, sceneBoxes, currentExtensionFactor, isAnimating,
                       timers, panelDisplay, sliderValue, highlighted, extVars,
                       extApplied>>

\* the loader's onError: loadTexture rejects, applyTextureToModel catches
\* and returns, applyTexture resumes
LoadFail(i) ==
    LET l == loads[i]
    IN  /\ loads' = RemoveAt(loads, i)
        /\ IF l.cont = "applyTexture"
           THEN AfterApplyTexture(l.path)
           ELSE UNCHANGED <<currentTexturePath, modelTextures>>
        /\ lastOp' = Op("textureFailed", l.model, l.path, 0, l.model = selectedObject)
        /\ UNCHANGED <<material, originalMaterial, loadedTextures, nextLoad, loaderCalls,
                       variant, appVars, dom, selectableObjects, selectedObject,
                       boundingBox, sceneBoxes, currentExtensionFactor, isAnimating,
                       timers, panelDisplay, sliderValue, highlighted, extVars,
                       histVars>>

\* the reset button's onclick: resetTexture(), then the map and the styles
ResetClick ==
    /\ variant = 2
    /\ HasButtons
    /\ highlighted' = {}
    /\ resetSince' = IF selectedObject = NoObject THEN resetSince
                     ELSE resetSince \cup {selectedObject}
    /\ IF selectedObject = NoObject
       THEN UNCHANGED <<material, originalMaterial, currentTexturePath,
                        modelTextures, texApplied>>
       ELSE /\ SetTex(ResetModelMaterials(Tex, selectedObject))
            /\ currentTexturePath' = NoPath
            /\ modelTextures' = [modelTextures EXCEPT ![selectedObject] = NoPath]
            /\ texApplied' = [texApplied EXCEPT ![selectedObject] = NoPath]
    /\ UNCHANGED <<uncaught, lastAnimated>>
    /\ lastOp' = Op("textureReset", selectedObject, NoObject, 0, selectedObject # NoObject)
    /\ UNCHANGED <<loadedTextures, loads, nextLoad, loaderCalls, variant, appVars, dom, selectableObjects,
                   selectedObject, boundingBox, sceneBoxes, currentExtensionFactor,
                   isAnimating, timers, panelDisplay, sliderValue, extVars,
                   extApplied>>

SelTexInit ==
    /\ InitCommon
    /\ variant = 2
    /\ dom = Elements

SelTexNext ==
    \/ \E object \in TopLevel : AddSelectableObject(object)
    \/ \E hit \in Meshes : OnRightClickHit(hit)
    \/ OnRightClickMiss
    \/ \E path \in Paths : TextureClick(path)
    \/ ResetClick
    \/ \E i \in 1..Len(loads) : LoadDone(i)
    \/ \E i \in 1..Len(loads) : LoadFail(i)

SpecSelTex == SelTexInit /\ [][SelTexNext]_vars

(* C9 (as claimed): when an object is selected to which the user applied   *)
(* texture path p (the load completed while it was selected, no reset      *)
(* since), the current texture path is p, the object's meshes carry a      *)
(* material with texture p and the button of p alone is highlighted.       *)
C9_TextureRestored ==
    (lastOp.op = "select" /\ texApplied[selectedObject] # NoPath) =>
        /\ currentTexturePath = texApplied[selectedObject]
        /\ \A m \in MeshesUnder(selectedObject) :
              material[m].map.path = texApplied[selectedObject]
        /\ highlighted = {texApplied[selectedObject]}

----------------------------------------------------------------------------
(* GravityManager: its operations *)

\* addObject, "if (this.objects.includes(object)) return"
AlreadyRegistered_Never(objs, object) == FALSE
AlreadyRegistered(objs, object) == object \in SeqRange(objs)

\* resetObjects, for one object: position.copy, quaternion.copy
ResetTransform_PositionOnly(tr, op, orot, object) ==
    IF op[object] # NoVector /\ orot[object] # NoVector
    THEN [tr EXCEPT !.pos[object] = op[object]]
    ELSE tr
ResetTransform(tr, op, orot, object) ==
    IF op[object] # NoVector /\ orot[object] # NoVector
    THEN [tr EXCEPT !.pos[object] = op[object], !.quat[object] = orot[object]]
    ELSE tr

RECURSIVE ResetObjects(_, _, _, _)
ResetObjects(tr, op, orot, objs) ==
    IF objs = <<>> THEN tr
    ELSE ResetObjects(ResetTransform(tr, op, orot, Head(objs)), op, orot, Tail(objs))

\* update, the body of the forEach for one object; j is the pair of jitters
UpdateObject(g, op, object, j) ==
    LET velocity == g.vel[object]
        rotation == g.rot[object]
        originalY == IF op[object] # NoVector THEN op[object][2] ELSE 0
        pos1 == <<g.pos[object][1] + velocity[1], g.pos[object][2] + velocity[2],
                  g.pos[object][3] + velocity[3]>>
        quat1 == <<g.quat[object][1] + rotation[1], g.quat[object][2] + rotation[2],
                   g.quat[object][3] + rotation[3]>>
        vy1 == IF pos1[2] > originalY + MaxHeight THEN Bounce(velocity[2])
               ELSE velocity[2]
    IN  IF velocity # NoVector /\ rotation # NoVector
        THEN [g EXCEPT !.pos[object] = pos1, !.quat[object] = quat1,
                       !.vel[object] = <<Damp(velocity[1] + j[1]), vy1,
                                         Damp(velocity[3] + j[2])>>]
        ELSE g

RECURSIVE UpdateObjects(_, _, _, _)
UpdateObjects(g, op, objs, js) ==
    IF objs = <<>> THEN g
    ELSE UpdateObjects(UpdateObject(g, op, Head(objs), js[Head(objs)]), op,
                       Tail(objs), js)

GravAddObject(object, v, r) ==
    /\ IF AlreadyRegistered(objects, object)
       THEN UNCHANGED <<objects, originalPositions, originalRotations,
                        objectVelocities, objectRotations>>
       ELSE /\ objects' = Append(objects, object)
            \* storeOriginalTransform
            /\ originalPositions' = [originalPositions EXCEPT ![object] = position[object]]
            /\ originalRotations' = [originalRotations EXCEPT ![object] = quaternion[object]]
            \* initializeObjectPhysics
            /\ objectVelocities' = [objectVelocities EXCEPT ![object] = v]
            /\ objectRotations' = [objectRotations EXCEPT ![object] = r]
    /\ lastOp' = Op("addObject", object, NoObject, 0, AlreadyRegistered(objects, object))
    /\ UNCHANGED <<isActive, position, quaternion, updateCount>>
    /\ UNCHANGED <<extVars, texVars, selVars, histVars, loadVars, loopVars>>

\* addObject on g = [objs, op, orot, vel, rot] with the object's transform
\* and the values initializeObjectPhysics draws
AddObject(g, object, v, r) ==
    IF AlreadyRegistered(g.objs, object) THEN g
    ELSE [objs |-> Append(g.objs, object),
          op |-> [g.op EXCEPT ![object] = position[object]],
          orot |-> [g.orot EXCEPT ![object] = quaternion[object]],
          vel |-> [g.vel EXCEPT ![object] = v],
          rot |-> [g.rot EXCEPT ![object] = r]]

\* scanScene's traversal callback: "object instanceof THREE.Group" and
\* "object.parent === scene"
ScanRegisters_AnyGroup(object) == object \in Groups
ScanRegisters(object) == object \in Groups /\ Parent[object] = NoObject

RECURSIVE ScanEach(_, _, _, _)
ScanEach(g, ns, vs, rs) ==
    IF ns = <<>> THEN g
    ELSE ScanEach(IF ScanRegisters(Head(ns))
                  THEN AddObject(g, Head(ns), vs[Head(ns)], rs[Head(ns)])
                  ELSE g,
                  Tail(ns), vs, rs)

\* the nodes a scanScene call now would run initializeObjectPhysics for
ScanTargets ==
    {n \in SeqRange(TraverseAll(SceneRoots)) :
        ScanRegisters(n) /\ ~AlreadyRegistered(objects, n)}

\* scanScene(scene): scene.traverse visits every node under the scene
ScanScene(vs, rs) ==
    LET g == ScanEach([objs |-> objects, op |-> originalPositions,
                       orot |-> originalRotations, vel |-> objectVelocities,
                       rot |-> objectRotations],
                      TraverseAll(SceneRoots), vs, rs)
    IN  /\ objects' = g.objs
        /\ originalPositions' = g.op
        /\ originalRotations' = g.orot
        /\ objectVelocities' = g.vel
        /\ objectRotations' = g.rot
        /\ lastOp' = Op("scanScene", NoObject, NoObject, Len(g.objs) - Len(objects),
                        \E o \in SeqRange(objects) : ScanRegisters(o))
        /\ UNCHANGED <<isActive, position, quaternion, updateCount>>
        /\ UNCHANGED <<extVars, texVars, selVars, histVars, loadVars, loopVars>>

ToggleGravity ==
    LET tr == ResetObjects([pos |-> position, quat |-> quaternion],
                           originalPositions, originalRotations, objects)
    IN  /\ isActive' = ~isActive
        /\ position' = IF isActive THEN tr.pos ELSE position
        /\ quaternion' = IF isActive THEN tr.quat ELSE quaternion
        /\ lastOp' = Op("toggleGravity", NoObject, NoObject, updateCount,
                        \E o \in SeqRange(objects) : position[o] # Position0[o])
        /\ UNCHANGED <<objects, originalPositions, originalRotations,
                       objectVelocities, objectRotations, updateCount>>
        /\ UNCHANGED <<extVars, texVars, selVars, histVars, loadVars, loopVars>>

\* update, "if (!this.isActive) return"
UpdateGated_Never(active) == FALSE
UpdateGated(active) == ~active

GravUpdate(js) ==
    LET g == UpdateObjects([pos |-> position, quat |-> quaternion,
                            vel |-> objectVelocities, rot |-> objectRotations],
                           originalPositions, objects, js)
    IN  /\ updateCount < MaxUpdates
        /\ updateCount' = updateCount + 1
        /\ position' = IF UpdateGated(isActive) THEN position ELSE g.pos
        /\ quaternion' = IF UpdateGated(isActive) THEN quaternion ELSE g.quat
        /\ objectVelocities' = IF UpdateGated(isActive) THEN objectVelocities ELSE g.vel
        /\ lastOp' = Op("update", NoObject, NoObject, 0, isActive)
        /\ UNCHANGED <<objects, originalPositions, originalRotations, isActive,
                       objectRotations>>
        /\ UNCHANGED <<extVars, texVars, selVars, histVars, loadVars, loopVars>>

GravSpecInit ==
    /\ InitCommon
    /\ variant = 0
    /\ dom = {}

GravNext ==
    \/ \E object \in GravObjects, v \in InitialVelocities, r \in InitialRotations :
          GravAddObject(object, v, r)
    \/ \E vs \in [ScanTargets -> InitialVelocities],
          rs \in [ScanTargets -> InitialRotations] :
          ScanScene(vs, rs)
    \/ ToggleGravity
    \/ \E js \in [GravObjects -> Jitters] : GravUpdate(js)

SpecGrav == GravSpecInit /\ [][GravNext]_vars

(* C12: when gravity is toggled off, every registered participant has      *)
(* exactly the position and the orientation it had when it was registered, *)
(* however many update() frames ran while gravity was on.                  *)
C12_ToggleOffRestores ==
    (lastOp.op = "toggleGravity" /\ ~isActive) =>
        \A o \in SeqRange(objects) :
            position[o] = Position0[o] /\ quaternion[o] = Quaternion0[o]

\* gravity was switched off after all the updates of the run, with two
\* participants that had drifted
C12_Witness ==
    /\ lastOp.op = "toggleGravity" /\ ~isActive /\ lastOp.flag
    /\ lastOp.arg = MaxUpdates
    /\ Len(objects) = 2

C15_ResetTextureStays ==
    \A o \in resetSince :
        /\ \A m \in MeshesUnder(o) : material[m] = DefaultMaterial[m]
        /\ modelTextures[o] = NoPath
        /\ selectedObject = o => currentTexturePath = NoPath

----------------------------------------------------------------------------
(* App: model loading, the render loop, the resize handler *)

\* loadModelAtPosition after a successful await: scene.add, loadedModels.push
AddLoaded_Twice(list, model) == Append(Append(list, model), model)
AddLoaded(list, model) == Append(list, model)

\* loadModelAtPosition up to its await: modelLoader.loadModel calls the loader
LoadModelAtPosition(path, pos) ==
    /\ nextModel < MaxModelLoads
    /\ nextModel' = nextModel + 1
    /\ modelLoads' = Append(modelLoads, [path |-> path, pos |-> pos, n |-> nextModel + 1])
    /\ lastOp' = Op("loadModelAtPosition", NoObject, path, 0, FALSE)
    /\ UNCHANGED <<sceneChildren, loadedModels, modelResults, position>>
    /\ UNCHANGED <<objects, originalPositions, originalRotations, isActive,
                   objectVelocities, objectRotations, quaternion, updateCount>>
    /\ UNCHANGED <<extVars, texVars, selVars, histVars, loopVars>>

\* the loader's onLoad for the i-th pending call: loadModel resolves and
\* loadModelAtPosition places the model, adds it and returns it
ModelLoadDone(i) ==
    LET l == modelLoads[i]
        model == ModelScene(l.n)
    IN  /\ modelLoads' = RemoveAt(modelLoads, i)
        /\ sceneChildren' = AddLoaded(sceneChildren, model)
        /\ loadedModels' = AddLoaded(loadedModels, model)
        /\ modelResults' = Append(modelResults, [n |-> l.n, result |-> model,
                                                 pos |-> l.pos])
        /\ lastOp' = Op("modelLoaded", NoObject, l.path, l.n, TRUE)
        /\ UNCHANGED <<nextModel, gravVars>>
        /\ UNCHANGED <<extVars, texVars, selVars, histVars, loopVars>>

\* the loader's onError: loadModel rejects, loadModelAtPosition catches,
\* logs and returns null
ModelLoadFail(i) ==
    LET l == modelLoads[i]
    IN  /\ modelLoads' = RemoveAt(modelLoads, i)
        /\ modelResults' = Append(modelResults, [n |-> l.n, result |-> NoModel,
                                                 pos |-> l.pos])
        /\ lastOp' = Op("modelFailed", NoObject, l.path, l.n, FALSE)
        /\ UNCHANGED <<sceneChildren, loadedModels, nextModel, gravVars>>
        /\ UNCHANGED <<extVars, texVars, selVars, histVars, loopVars>>

\* animate(): requestAnimationFrame(animate), controls.update(), render
Animate ==
    /\ rafPending
    /\ frameCount < MaxFrames
    /\ frameCount' = frameCount + 1
    /\ rafPending' = ("requestAnimationFrame" \in SeqRange(AnimateSteps))
    /\ frameLog' = AnimateSteps
    /\ lastOp' = Op("animate", NoObject, NoObject, frameCount + 1, FALSE)
    /\ UNCHANGED <<viewport, rendererSize, gravVars, loadVars>>
    /\ UNCHANGED <<extVars, texVars, selVars, histVars>>

\* the window is resized and onWindowResize runs
OnWindowResize(size) ==
    /\ size # viewport
    /\ viewport' = size
    /\ rendererSize' = size
    /\ lastOp' = Op("resize", NoObject, NoObject, 0, FALSE)
    /\ UNCHANGED <<frameLog, rafPending, frameCount, gravVars, loadVars>>
    /\ UNCHANGED <<extVars, texVars, selVars, histVars>>

AppSpecInit ==
    /\ InitCommon
    /\ variant = 0
    /\ dom = {}

AppNext ==
    \/ \E path \in ModelPaths, pos \in ModelPositions : LoadModelAtPosition(path, pos)
    \/ \E i \in 1..Len(modelLoads) : ModelLoadDone(i)
    \/ \E i \in 1..Len(modelLoads) : ModelLoadFail(i)
    \/ Animate
    \/ \E size \in Viewports : OnWindowResize(size)

SpecApp == AppSpecInit /\ [][AppNext]_vars

Count(list, x) == Cardinality({i \in 1..Len(list) : list[i] = x})

(* C16: every loadModelAtPosition call settles with one loader invocation. *)
(* After a success the loaded scene graph is in the scene and in the        *)
(* loaded-model list exactly once; after a failure the call has yielded     *)
(* null and neither the scene nor the list has changed.                     *)
C16_ModelLoadOutcome ==
    /\ [](\A i \in 1..Len(modelResults) :
             LET r == modelResults[i].result
             IN  IF r = NoModel
                 THEN ModelScene(modelResults[i].n) \notin SeqRange(sceneChildren)
                 ELSE Count(sceneChildren, r) = 1 /\ Count(loadedModels, r) = 1)
    /\ [](Len(modelResults) + Len(modelLoads) = nextModel)
    /\ [][lastOp'.op = "modelFailed" =>
             /\ sceneChildren' = sceneChildren /\ loadedModels' = loadedModels
             /\ nextModel' = nextModel
             /\ modelResults'[Len(modelResults')].result = NoModel]_vars

\* of three loads one has failed and two have succeeded
C16_Witness ==
    /\ Len(modelResults) = MaxModelLoads
    /\ Len(loadedModels) = 2
    /\ \E i \in 1..Len(modelResults) : modelResults[i].result = NoModel

Unselected == Candidates \ {selectedObject}

(* C20 (as claimed): in the second variant an object that has been         *)
(* deselected, by a right-click on empty space or by the selection of      *)
(* another object, has the vertex positions of its original snapshot for   *)
(* as long as it stays unselected (an object that was never selected has   *)
(* them too), and the deselection leaves its materials as they were.       *)
C20_DeselectedStaysOriginal ==
    /\ [](variant = 2 =>
            \A o \in Unselected : \A m \in MeshesUnder(o) :
                positions[m] = Geometry0[m])
    /\ [][variant = 2 /\ selectedObject # NoObject /\ selectedObject' # selectedObject
            => \A m \in MeshesUnder(selectedObject) : material'[m] = material[m]]_vars

\* the animateExtension chains scheduled on the mesh
ChainsOn(mesh) == {i \in 1..Len(chains) : chains[i].mesh = mesh}

(* C21 (as claimed): with every extension driven through the slider, the   *)
(* in-flight flag keeps animations apart: when applyExtension starts an    *)
(* animation no callback chain of an earlier one is still scheduled on a   *)
(* mesh of the selected object, and no mesh ever has two chains writing    *)
(* its vertex buffer.                                                      *)
C21_FlagKeepsChainsApart ==
    /\ [](\A m \in Meshes : Cardinality(ChainsOn(m)) <= 1)
    /\ [][lastOp'.op = "sliderInput" /\ lastOp'.flag
            => \A m \in MeshesUnder(selectedObject) : ChainsOn(m) = {}]_vars

(* C23 (as claimed): the current extension factor describes the selected   *)
(* object: a selection starts with the factor 0, and an extension started  *)
(* on one object that completes when that object is no longer the selected *)
(* one (another is, or none) leaves the current factor as it is.           *)
C23_FactorOfSelectedObject ==
    /\ [][variant = 2 /\ lastOp'.op = "select" => currentExtensionFactor' = 0]_vars
    /\ [][lastOp'.op = "extensionDone" /\ lastOp'.obj # selectedObject
            => currentExtensionFactor' = currentExtensionFactor]_vars

(* C24 (as claimed): the texture memory records a path only against the    *)
(* object the texture was applied to: a texture application started on one *)
(* object that settles when another object is selected records nothing for *)
(* that object, nothing is ever recorded for a missing object, and the     *)
(* current texture path is empty while nothing is selected.                *)
C24_MemoryOfAppliedObject ==
    /\ [](modelTextures[NoObject] = NoPath)
    /\ [](selectedObject = NoObject => currentTexturePath = NoPath)
    /\ [][(/\ lastOp'.op \in {"textureLoaded", "textureFailed"}
            /\ selectedObject # NoObject
            /\ lastOp'.obj # selectedObject)
           => modelTextures'[selectedObject] = modelTextures[selectedObject]]_vars

(* C25 (as claimed): a texture load that fails changes no mesh material,   *)
(* stashes no original material and caches no texture, and the current     *)
(* texture path and the selected object's remembered texture keep the      *)
(* values they had.                                                        *)
C25_FailedLoadChangesNothing ==
    [][lastOp'.op = "textureFailed" =>
          /\ material' = material
          /\ originalMaterial' = originalMaterial
          /\ loadedTextures' = loadedTextures
          /\ currentTexturePath' = currentTexturePath
          /\ modelTextures'[selectedObject] = modelTextures[selectedObject]]_vars

\* no extension is in flight: no completion timer pending, no callback
\* chain scheduled, the flag clear
Settled == timers = <<>> /\ chains = <<>> /\ ~isAnimating

\* the meshes of the object are stretched by the factor f
StretchedBy(object, f) ==
    \A m \in MeshesUnder(object) : positions[m] = TargetPositions(Geometry0[m], f)

(* C27 (as claimed): when no extension is in flight any more, the selected *)
(* object's geometry is stretched by the value the slider shows, up to the *)
(* dead zone of 0.01.                                                      *)
C27_SliderAndGeometryAgree ==
    (variant = 2 /\ selectedObject # NoObject /\ Settled) =>
        \E f \in Factors : InDeadZone(sliderValue, f) /\ StretchedBy(selectedObject, f)

----------------------------------------------------------------------------
(* The GravityManager next to a selection and an extended mesh             *)

GravSelInit ==
    /\ InitCommon
    /\ variant = 2
    /\ dom = Elements

GravSelNext ==
    \/ \E object \in TopLevel : AddSelectableObject(object)
    \/ \E hit \in Meshes : OnRightClickHit(hit)
    \/ OnRightClickMiss
    \/ \E model \in AnimModels, f \in LiveFactors :
          ExtExtendModel(model, f, FALSE, Duration)
    \/ \E vs \in [ScanTargets -> InitialVelocities],
          rs \in [ScanTargets -> InitialRotations] :
          ScanScene(vs, rs)
    \/ ToggleGravity
    \/ \E js \in [GravObjects -> Jitters] : GravUpdate(js)

SpecGravSel == GravSelInit /\ [][GravSelNext]_vars

\* the operations of the GravityManager
GravityOps == {"addObject", "scanScene", "toggleGravity", "update"}

(* C29: while gravity is off, update() changes no participant's position,  *)
(* orientation or velocity; and no operation of the GravityManager         *)
(* (toggle, update, registration) changes the selected object, a vertex    *)
(* buffer or a material.                                                   *)
C29_GravityKeepsToItself ==
    /\ [][lastOp'.op = "update" /\ ~isActive =>
            /\ position' = position
            /\ quaternion' = quaternion
            /\ objectVelocities' = objectVelocities]_vars
    /\ [][lastOp'.op \in GravityOps =>
            /\ selectedObject' = selectedObject
            /\ boundingBox' = boundingBox
            /\ positions' = positions
            /\ originalGeometries' = originalGeometries
            /\ material' = material
            /\ originalMaterial' = originalMaterial]_vars

\* update() ran with gravity off, after gravity had been on and moved the
\* registered group, while an object with a stretched mesh was selected
C29_Witness ==
    /\ lastOp.op = "update" /\ ~lastOp.flag /\ ~isActive
    /\ updateCount >= 2
    /\ "A" \in SeqRange(objects)
    /\ selectedObject = "B"
    /\ positions["B"] # Geometry0["B"]

----------------------------------------------------------------------------
(* The second variant with timers that fire and a clock that advances      *)

\* applyExtension when extendModel throws before it reaches a mesh: the
\* flag is set, the catch logs, the finally clears the flag
SliderInputThrow(factor) ==
    /\ variant = 2
    /\ SliderAndValue
    /\ ~ExtensionGated(selectedObject, isAnimating)
    /\ ~InDeadZone(factor, currentExtensionFactor)
    /\ sliderValue' = factor
    /\ isAnimating' = FlagAfterExtension(TRUE)
    /\ lastOp' = Op("sliderThrow", selectedObject, NoObject, factor, FALSE)
    /\ UNCHANGED <<variant, appVars, dom, selectableObjects, selectedObject, boundingBox,
                   sceneBoxes, currentExtensionFactor, currentTexturePath,
                   modelTextures, panelDisplay, highlighted, timers, extVars, texVars,
                   histVars>>

LiveInit ==
    /\ InitCommon
    /\ variant = 2
    /\ dom = Elements

LiveNext ==
    \/ \E object \in TopLevel : AddSelectableObject(object)
    \/ \E hit \in Meshes : OnRightClickHit(hit)
    \/ OnRightClickMiss
    \/ \E factor \in LiveFactors : SliderInput(factor)
    \/ \E factor \in LiveFactors : SliderInputThrow(factor)
    \/ TimerFire
    \/ Frame
    \/ Tick

SpecLive ==
    LiveInit /\ [][LiveNext]_vars /\ WF_vars(TimerFire) /\ WF_vars(Tick)

(* C26: the in-flight flag is always eventually cleared: it is set only by *)
(* an applyExtension call that starts an animation and cleared when that   *)
(* call's timer fires after the duration, whatever is selected by then; a  *)
(* call whose extendModel throws leaves the flag clear.                    *)
C26_FlagEventuallyCleared ==
    /\ isAnimating ~> ~isAnimating
    /\ [][isAnimating /\ ~isAnimating'
            => /\ lastOp'.op = "extensionDone"
               /\ Head(timers).elapsed >= Duration]_vars
    /\ [][lastOp'.op = "sliderThrow" => ~isAnimating']_vars

\* the flag was cleared by the timer of an extension started on an object
\* that is no longer the selected one
C26_Witness ==
    /\ lastOp.op = "extensionDone" /\ ~isAnimating
    /\ lastOp.obj # lastOp.aux

----------------------------------------------------------------------------
(* The ModelExtender called with durations of the caller's choice          *)

\* extendModel(..., duration) arguments: the default and twice the default
Durations == {Duration, 2 * Duration}

DurNext ==
    \/ \E model \in AnimModels, f \in Factors, duration \in Durations :
          ExtExtendModel(model, f, TRUE, duration)
    \/ \E model \in AnimModels : ExtResetModel(model)
    \/ ExtFrame
    \/ ExtTick

SpecDur == ExtInit /\ [][DurNext]_vars

----------------------------------------------------------------------------
(* The viewer in a page that lacks some of the elements the managers look  *)
(* up                                                                      *)

\* the click listener setupUI puts on the toggle it creates inside
\* #ui-container; without the container setupUI returns before creating it
GravityToggleClick ==
    /\ "ui-container" \in dom
    /\ ToggleGravity

DomInit ==
    /\ InitCommon
    /\ variant \in {1, 2}
    /\ dom \in SUBSET Elements

DomNext ==
    \/ \E object \in TopLevel : AddSelectableObject(object)
    \/ \E hit \in Meshes : OnRightClickHit(hit)
    \/ OnRightClickMiss
    \/ \E factor \in Factors : SliderInput(factor)
    \/ GravityToggleClick

SpecDom == DomInit /\ [][DomNext]_vars

(* C17: whichever of the page's elements are absent (selection panel,      *)
(* model name, slider, readout, texture selector, UI container), no        *)
(* handler throws, and a right-click changes the selection as it does in   *)
(* the full page: a hit selects the nearest candidate and gives it the one *)
(* indicator of the scene, a miss leaves no selection and no indicator.    *)
C17_AbsentElementsHarmless ==
    /\ ~uncaught
    /\ lastOp.op = "select" =>
          /\ selectedObject = lastOp.obj
          /\ boundingBox.object = lastOp.obj
          /\ sceneBoxes = <<boundingBox>>
    /\ lastOp.op = "clear" =>
          /\ selectedObject = NoObject
          /\ boundingBox = NoBox
          /\ sceneBoxes = <<>>

\* in a page with none of the elements the second variant has switched the
\* selection from one object to another
C17_Witness ==
    /\ dom = {}
    /\ variant = 2
    /\ lastOp.op = "select" /\ lastOp.flag
    /\ selectedObject = "B" /\ boundingBox.object = "B"

============================================================================
